---- MODULE Spec2Model ----
(***************************************************************************)
(* Model of the chunked concurrent downloader of package download          *)
(* (src/cmd/concurrent-downloader/main.go): Downloader.Download, the       *)
(* per-URL worker downloadLargeFile, the range-fetch worker                *)
(* downloadFileForRange, createOutputFile and combineChunks.               *)
(*                                                                         *)
(* File contents are sequences of runs [lo |-> s, hi |-> e] of source      *)
(* bytes s..e; adjacent runs merge on concatenation, so a file equals the  *)
(* source of length L exactly when it is <<[lo |-> 0, hi |-> L-1]>>.       *)
(***************************************************************************)
EXTENDS Integers, Sequences, FiniteSets, TLC

\* ---------------------------------------------------------------- bounds
\* largest MaxLimitConcurrency a configuration of the model draws
MaxConc == 2
\* largest NumConcParts a configuration of the model draws
MaxParts == 2

\* ------------------------------------------------------- program constants
\* contentLength <= (1024 * 1024 * 10): files up to this size are not split
SplitThreshold == 1024 * 1024 * 10

VARIABLES
    goos,        \* the operating system of the build: "linux" | "windows"
    opts,        \* d.downloadOptions: [MaxLimitConcurrency, NumConcParts]
    fileUrls,    \* the argument of Download, each URL with what its server holds:
                 \* [name (last path segment), length, header (Content-Length)]
    fs,          \* the download directory: output path -> "absent" | "old" | "new"
    derr,        \* d.err: "nil", "exists" (File already exists) or "error" (any other)
    downloadPaths, \* d.downloadPaths
    mpc,         \* position of Download: "probe" | "check" | "wait" | "returned"
    k,           \* index of the URL the loop of Download is at
    ret,         \* what Download returned: [paths, err]
    wg,          \* counter of Download's WaitGroup
    waitChan,    \* number of elements buffered in waitChan (outstanding permits)
    jpc,         \* position of each per-URL worker
    job,         \* locals of each per-URL worker
    fetch,       \* each range-fetch worker: position, requested range, outcome
    chunk        \* temporary chunk files: state and content

vars == <<goos, opts, fileUrls, fs, derr, downloadPaths, mpc, k, ret, wg, waitChan,
          jpc, job, fetch, chunk>>

Jobs == DOMAIN fileUrls
Parts == 0 .. (MaxParts - 1)

\* ------------------------------------------------------------ byte strings
Bytes(s, e) == IF s <= e THEN << [lo |-> s, hi |-> e] >> ELSE << >>

Concat(a, b) ==
    IF a = << >> THEN b
    ELSE IF b = << >> THEN a
    ELSE IF a[Len(a)].hi + 1 = b[1].lo
         THEN SubSeq(a, 1, Len(a) - 1)
              \o << [lo |-> a[Len(a)].lo, hi |-> b[1].hi] >>
              \o SubSeq(b, 2, Len(b))
         ELSE a \o b

RECURSIVE ByteLen(_)
ByteLen(a) == IF a = << >> THEN 0
              ELSE (a[1].hi - a[1].lo + 1) + ByteLen(Tail(a))

Source(L) == Bytes(0, L - 1)

\* ------------------------------------------------------------ the planner
\* the split test written with < : a file of exactly the threshold is split
numConcPartsStrict(contentLength) ==
    IF contentLength < SplitThreshold THEN 1 ELSE opts.NumConcParts

\* numConcParts of downloadLargeFile
numConcParts(contentLength) ==
    IF contentLength <= SplitThreshold THEN 1 ELSE opts.NumConcParts

\* totalBytesPerGoroutine of downloadLargeFile
totalBytesPerGoroutine(contentLength) ==
    IF contentLength <= SplitThreshold THEN 0
    ELSE contentLength \div opts.NumConcParts

\* lastByteLeft of downloadLargeFile
lastByteLeft(contentLength) ==
    IF contentLength <= SplitThreshold THEN contentLength
    ELSE contentLength % opts.NumConcParts

\* min of the i-th iteration
rangeMin(contentLength, i) == totalBytesPerGoroutine(contentLength) * i

\* rangeMax with the remainder of the division left out of the last range
rangeMaxNoRemainder(contentLength, i) ==
    totalBytesPerGoroutine(contentLength) * (i + 1) - 1

\* max of the i-th iteration
rangeMax(contentLength, i) ==
    LET max == totalBytesPerGoroutine(contentLength) * (i + 1) - 1
    IN  IF i = numConcParts(contentLength) - 1 /\ lastByteLeft(contentLength) > 0
        THEN max + lastByteLeft(contentLength)
        ELSE max

\* ------------------------------------------------------------- the probe
\* Header text is a sequence of characters: the digits 0 .. 9, and NonDigit
\* for any other character. Decimal(n) is the text a server sends for n.
NonDigit == 0 - 1

RECURSIVE Decimal(_)
Decimal(n) == IF n < 10 THEN << n >> ELSE Append(Decimal(n \div 10), n % 10)

\* strconv.Atoi: the value of a text of digits, an error for anything else
RECURSIVE DigitsValue(_)
DigitsValue(t) == IF t = << >> THEN 0
                  ELSE DigitsValue(SubSeq(t, 1, Len(t) - 1)) * 10 + t[Len(t)]

Atoi(t) ==
    IF t = << >> \/ \E x \in 1 .. Len(t) : t[x] \notin 0 .. 9
    THEN [value |-> 0, err |-> TRUE]
    ELSE [value |-> DigitsValue(t), err |-> FALSE]

\* What a HEAD request for u can come back with: a transport error, a status
\* other than 200, or 200 with the Content-Length header u's server sends
\* (u.header: absent << >>, unparsable, or the text of u.length).
ProbeResponses(u) ==
    { [err |-> TRUE,  status |-> 0,   header |-> << >>],
      [err |-> FALSE, status |-> 404, header |-> << >>],
      [err |-> FALSE, status |-> 200, header |-> u.header] }

\* the probe with the error of strconv.Atoi dropped
checkFileSizeIgnoringAtoi(resp) ==
    IF resp.err THEN [size |-> 0, err |-> TRUE]
    ELSE IF resp.status # 200 THEN [size |-> 0, err |-> TRUE]
    ELSE [size |-> Atoi(resp.header).value, err |-> FALSE]

checkFileSizeWithHeaderContentLength(resp) ==
    IF resp.err THEN [size |-> 0, err |-> TRUE]
    ELSE IF resp.status # 200 THEN [size |-> 0, err |-> TRUE]
    ELSE IF resp.header = << >> THEN [size |-> 0, err |-> FALSE]
    ELSE IF Atoi(resp.header).err THEN [size |-> 0, err |-> TRUE]
    ELSE [size |-> Atoi(resp.header).value, err |-> FALSE]

\* ------------------------------------------------------------ small helpers
outputFilePath(j) == fileUrls[j].name

\* the existence check answering "absent" whatever the directory holds
ExistsNever(path) == FALSE

\* !os.IsNotExist(err) after os.Stat(path)
Exists(path) == fs[path] # "absent"

\* a channel made one slot too large
ChanCapPlusOne == opts.MaxLimitConcurrency + 1

\* capacity of waitChan
ChanCap == opts.MaxLimitConcurrency

NoJob == [size |-> 0, i |-> 0, wg1 |-> 0, snap |-> << >>, out |-> << >>,
          res |-> "none"]
NoFetch == [pc |-> "idle", min |-> 0, max |-> 0, res |-> "none"]
\* chunk files: "none" (not created), "open", "removed" (closed and gone from
\* the disk) or "closed" (closed and still on the disk)
NoChunk == [st |-> "none", data |-> << >>]

\* line 160-161: the deferred calls of one chunk file run in reverse order of
\* their registration, os.Remove(f.Name()) before f.Close(). The file is still
\* open when os.Remove runs: that unlinks it on Linux and fails on Windows,
\* where a file opened by package os cannot be deleted while the handle is
\* open; the error of os.Remove is dropped.
Cleanup(c) ==
    [i \in Parts |-> IF c[i].st = "open"
                     THEN [c[i] EXCEPT !.st = IF goos = "windows" THEN "closed"
                                              ELSE "removed"]
                     ELSE c[i]]

\* The deferred calls of downloadLargeFile, run when it returns: the cleanup
\* of every temporary file created so far, outFile.Close() and wg.Done().
Return(j, res) ==
    /\ jpc' = [jpc EXCEPT ![j] = "done"]
    /\ chunk' = [chunk EXCEPT ![j] = Cleanup(chunk[j])]
    /\ wg' = wg - 1
    /\ job' = [job EXCEPT ![j].res = res]

\* ------------------------------------------------------------- Download
\* line 85-90: probe the k-th URL; on failure return, else launch its worker
Probe ==
    /\ mpc = "probe"
    /\ \E resp \in ProbeResponses(fileUrls[k]) :
         LET r == checkFileSizeWithHeaderContentLength(resp) IN
         IF r.err
         THEN /\ mpc' = "returned"
              /\ ret' = [paths |-> << >>, err |-> "probe"]
              /\ UNCHANGED <<wg, jpc, job>>
         ELSE /\ mpc' = "check"
              /\ wg' = wg + 1
              /\ jpc' = [jpc EXCEPT ![k] = "stat"]
              /\ job' = [job EXCEPT ![k].size = r.size]
              /\ UNCHANGED ret
    /\ UNCHANGED <<goos, opts, fileUrls, fs, derr, downloadPaths, k, waitChan, fetch, chunk>>

\* line 91-94: read d.err after launching; return on an error, else next URL
CheckErr ==
    /\ mpc = "check"
    /\ IF derr # "nil"
       THEN /\ mpc' = "returned"
            /\ ret' = [paths |-> << >>, err |-> "processing"]
            /\ UNCHANGED k
       ELSE /\ k' = k + 1
            /\ mpc' = IF k + 1 > Len(fileUrls) THEN "wait" ELSE "probe"
            /\ UNCHANGED ret
    /\ UNCHANGED <<goos, opts, fileUrls, fs, derr, downloadPaths, wg, waitChan, jpc, job,
                   fetch, chunk>>

\* line 95-96: wg.Wait(), then return d.downloadPaths, nil
WaitAll ==
    /\ mpc = "wait"
    /\ wg = 0
    /\ mpc' = "returned"
    /\ ret' = [paths |-> downloadPaths, err |-> "nil"]
    /\ UNCHANGED <<goos, opts, fileUrls, fs, derr, downloadPaths, k, wg, waitChan, jpc, job,
                   fetch, chunk>>

\* ------------------------------------------------------ downloadLargeFile
\* line 101-103 (createOutputFile): os.Stat; the path exists: d.err, return
StatOutput(j) ==
    /\ jpc[j] = "stat"
    /\ IF Exists(outputFilePath(j))
       THEN /\ derr' = "exists"
            /\ Return(j, "exists")
       ELSE /\ jpc' = [jpc EXCEPT ![j] = "create"]
            /\ UNCHANGED <<derr, chunk, wg, job>>
    /\ UNCHANGED <<goos, opts, fileUrls, fs, downloadPaths, mpc, k, ret, waitChan, fetch>>

\* line 105-110 (createOutputFile): os.Create truncates whatever is there
CreateOutput(j) ==
    /\ jpc[j] = "create"
    /\ \/ /\ fs' = [fs EXCEPT ![outputFilePath(j)] = "new"]
          /\ jpc' = [jpc EXCEPT ![j] = "tmp"]
          /\ UNCHANGED <<derr, chunk, wg, job>>
       \/ /\ derr' = "error"
          /\ Return(j, "create")
          /\ UNCHANGED fs
    /\ UNCHANGED <<goos, opts, fileUrls, downloadPaths, mpc, k, ret, waitChan, fetch>>

\* line 155-162: os.CreateTemp for part job[j].i
CreateTemp(j) ==
    /\ jpc[j] = "tmp"
    /\ \/ /\ chunk' = [chunk EXCEPT ![j][job[j].i] = [st |-> "open", data |-> << >>]]
          /\ jpc' = [jpc EXCEPT ![j] = "acquire"]
          /\ UNCHANGED <<derr, wg, job>>
       \/ /\ derr' = "error"
          /\ Return(j, "tmp")
    /\ UNCHANGED <<goos, opts, fileUrls, fs, downloadPaths, mpc, k, ret, waitChan, fetch>>

\* line 163-167: waitchan <- struct{}{} blocks while the channel is full; then
\* wg1.Add(1) and the range-fetch worker is launched
AcquireAndLaunch(j) ==
    /\ jpc[j] = "acquire"
    /\ waitChan < ChanCap
    /\ waitChan' = waitChan + 1
    /\ LET i == job[j].i IN
       /\ fetch' = [fetch EXCEPT ![j][i] =
                       [pc |-> "do", min |-> rangeMin(job[j].size, i),
                        max |-> rangeMax(job[j].size, i), res |-> "none"]]
       /\ job' = [job EXCEPT ![j].i = i + 1, ![j].wg1 = @ + 1]
       /\ jpc' = [jpc EXCEPT ![j] = IF i + 1 < numConcParts(job[j].size)
                                    THEN "tmp" ELSE "check"]
    /\ UNCHANGED <<goos, opts, fileUrls, fs, derr, downloadPaths, mpc, k, ret, wg, chunk>>

\* line 170-173: d.err is read before wg1.Wait(); a non-nil error is wrapped
\* (%w), which keeps its kind, and the worker returns without waiting
CheckErrAfterLaunch(j) ==
    /\ jpc[j] = "check"
    /\ IF derr # "nil"
       THEN /\ UNCHANGED derr
            /\ Return(j, "aborted")
       ELSE /\ jpc' = [jpc EXCEPT ![j] = "wait"]
            /\ UNCHANGED <<derr, chunk, wg, job>>
    /\ UNCHANGED <<goos, opts, fileUrls, fs, downloadPaths, mpc, k, ret, waitChan, fetch>>

\* going on to combine without waiting for the range-fetch workers
WaitFetchersNoWait(j) ==
    /\ jpc[j] = "wait"
    /\ jpc' = [jpc EXCEPT ![j] = "combine"]
    /\ UNCHANGED <<goos, opts, fileUrls, fs, derr, downloadPaths, mpc, k, ret, wg, waitChan,
                   job, fetch, chunk>>

\* line 175: wg1.Wait()
WaitFetchers(j) ==
    /\ jpc[j] = "wait"
    /\ job[j].wg1 = 0
    /\ jpc' = [jpc EXCEPT ![j] = "combine"]
    /\ UNCHANGED <<goos, opts, fileUrls, fs, derr, downloadPaths, mpc, k, ret, wg, waitChan,
                   job, fetch, chunk>>

\* combineChunks, line 189-197: the chunks 0 .. n-1 appended in index order
RECURSIVE combineChunks(_, _)
combineChunks(fileChunks, n) ==
    IF n = 0 THEN << >>
    ELSE Concat(combineChunks(fileChunks, n - 1), fileChunks[n - 1].data)

\* line 177-181: combine; an I/O error after m chunks leaves those in the output
CombineChunks(j) ==
    /\ jpc[j] = "combine"
    /\ \/ /\ job' = [job EXCEPT ![j].out = combineChunks(chunk[j], job[j].i)]
          /\ jpc' = [jpc EXCEPT ![j] = "append"]
          /\ UNCHANGED <<derr, chunk, wg>>
       \/ \E m \in 0 .. (job[j].i - 1) :
            /\ derr' = "error"
            /\ jpc' = [jpc EXCEPT ![j] = "done"]
            /\ chunk' = [chunk EXCEPT ![j] = Cleanup(chunk[j])]
            /\ wg' = wg - 1
            /\ job' = [job EXCEPT ![j].res = "combine",
                                  ![j].out = combineChunks(chunk[j], m)]
    /\ UNCHANGED <<goos, opts, fileUrls, fs, downloadPaths, mpc, k, ret, waitChan, fetch>>

\* line 182, first half: append reads d.downloadPaths (no lock is held)
AppendRead(j) ==
    /\ jpc[j] = "append"
    /\ job' = [job EXCEPT ![j].snap = downloadPaths]
    /\ jpc' = [jpc EXCEPT ![j] = "store"]
    /\ UNCHANGED <<goos, opts, fileUrls, fs, derr, downloadPaths, mpc, k, ret, wg, waitChan,
                   fetch, chunk>>

\* line 182, second half: the grown slice is stored into d.downloadPaths
AppendWrite(j) ==
    /\ jpc[j] = "store"
    /\ downloadPaths' = Append(job[j].snap, outputFilePath(j))
    /\ Return(j, "recorded")
    /\ UNCHANGED <<goos, opts, fileUrls, fs, derr, mpc, k, ret, waitChan, fetch>>

\* --------------------------------------------------- downloadFileForRange
\* line 211-246: the request, the status check and io.Copy of the body (the
\* bytes min..max of the source) into the chunk file, as one step of the worker.
\* A transport error returns before the deferred release is registered; a status
\* other than 200/206 and a copy error return through it. Writing a non-empty
\* body into a chunk file that was closed fails; a failed copy is taken to fail
\* before its first byte is written. http.NewRequest cannot fail here: the
\* probe built a request for the same URL.
ClientDo(j, i) ==
    /\ fetch[j][i].pc = "do"
    /\ LET body == Bytes(fetch[j][i].min, fetch[j][i].max) IN
       \/ /\ fetch' = [fetch EXCEPT ![j][i].pc = "wgdone", ![j][i].res = "transport"]
          /\ derr' = "error"
          /\ UNCHANGED chunk
       \/ /\ fetch' = [fetch EXCEPT ![j][i].pc = "release", ![j][i].res = "status"]
          /\ derr' = "error"
          /\ UNCHANGED chunk
       \/ /\ body # << >>
          /\ fetch' = [fetch EXCEPT ![j][i].pc = "release", ![j][i].res = "copy"]
          /\ derr' = "error"
          /\ UNCHANGED chunk
       \/ /\ chunk[j][i].st = "open" \/ body = << >>
          /\ fetch' = [fetch EXCEPT ![j][i].pc = "release", ![j][i].res = "ok"]
          /\ chunk' = [chunk EXCEPT ![j][i].data =
                          IF chunk[j][i].st = "open" THEN body ELSE @]
          /\ UNCHANGED derr
    /\ UNCHANGED <<goos, opts, fileUrls, fs, downloadPaths, mpc, k, ret, wg, waitChan, jpc, job>>

\* line 232-235: the deferred <-waitchan
ReleasePermit(j, i) ==
    /\ fetch[j][i].pc = "release"
    /\ waitChan > 0
    /\ waitChan' = waitChan - 1
    /\ fetch' = [fetch EXCEPT ![j][i].pc = "wgdone"]
    /\ UNCHANGED <<goos, opts, fileUrls, fs, derr, downloadPaths, mpc, k, ret, wg, jpc, job,
                   chunk>>

\* line 207-209: the deferred wg.Done(), the last thing the worker does
FetchDone(j, i) ==
    /\ fetch[j][i].pc = "wgdone"
    /\ fetch' = [fetch EXCEPT ![j][i].pc = "done"]
    /\ job' = [job EXCEPT ![j].wg1 = @ - 1]
    /\ UNCHANGED <<goos, opts, fileUrls, fs, derr, downloadPaths, mpc, k, ret, wg, waitChan,
                   jpc, chunk>>

\* ------------------------------------------------------- specifications
Paths == {"a", "b"}

Url(name, length) == [name |-> name, length |-> length, header |-> Decimal(length)]

\* the batches of Spec (a Linux build): two URLs with distinct last segments, one file below
\* the split threshold and one above it, and two URLs with the same last segment
Batches ==
    { << Url("a", 5), Url("b", SplitThreshold + 3) >>,
      << Url("a", 5), Url("a", 7) >> }

\* the download directory before the batch: empty, or holding a file "a"
Dirs == { [p \in Paths |-> "absent"],
          [p \in Paths |-> IF p = "a" THEN "old" ELSE "absent"] }

\* the state after NewDownloader and the first lines of Download
InitState(systems, batches, dirs) ==
    /\ goos \in systems
    /\ fileUrls \in batches
    /\ fs \in dirs
    /\ derr = "nil"
    /\ downloadPaths = << >>
    /\ mpc = "probe"
    /\ k = 1
    /\ ret = [paths |-> << >>, err |-> "none"]
    /\ wg = 0
    /\ waitChan = 0
    /\ jpc = [j \in Jobs |-> "idle"]
    /\ job = [j \in Jobs |-> NoJob]
    /\ fetch = [j \in Jobs |-> [i \in Parts |-> NoFetch]]
    /\ chunk = [j \in Jobs |-> [i \in Parts |-> NoChunk]]

InitWith(systems, batches, dirs) ==
    /\ opts \in [MaxLimitConcurrency : 1 .. MaxConc, NumConcParts : 1 .. MaxParts]
    /\ InitState(systems, batches, dirs)

Init == InitWith({"linux"}, Batches, Dirs)

Next ==
    \/ Probe
    \/ CheckErr
    \/ WaitAll
    \/ \E j \in Jobs : StatOutput(j)
    \/ \E j \in Jobs : CreateOutput(j)
    \/ \E j \in Jobs : CreateTemp(j)
    \/ \E j \in Jobs : AcquireAndLaunch(j)
    \/ \E j \in Jobs : CheckErrAfterLaunch(j)
    \/ \E j \in Jobs : WaitFetchers(j)
    \/ \E j \in Jobs : CombineChunks(j)
    \/ \E j \in Jobs : AppendRead(j)
    \/ \E j \in Jobs : AppendWrite(j)
    \/ \E j \in Jobs, i \in Parts : ClientDo(j, i)
    \/ \E j \in Jobs, i \in Parts : ReleasePermit(j, i)
    \/ \E j \in Jobs, i \in Parts : FetchDone(j, i)

Spec == Init /\ [][Next]_vars

\* A single URL, over lengths at, below and above the split threshold, with
\* the Content-Length header present, absent or unparsable.
Lengths == {0, 1, SplitThreshold - 1, SplitThreshold}
           \cup (SplitThreshold + 1) .. (SplitThreshold + MaxParts + 2)

OneBatches ==
    { << Url("a", L) >> : L \in Lengths }
    \cup { << [name |-> "a", length |-> SplitThreshold + 1, header |-> h] >> :
           h \in { << >>, << 1, NonDigit >> } }

InitOne == InitWith({"linux", "windows"}, OneBatches, Dirs)

SpecOne == InitOne /\ [][Next]_vars

\* The planner alone: Download up to the point where downloadLargeFile has
\* created its output file and computed its plan, over the same lengths and
\* over part counts that include one larger than every length.
HugeParts == SplitThreshold + MaxParts + 3

InitPlan ==
    /\ opts \in [MaxLimitConcurrency : {1},
                 NumConcParts : (1 .. MaxParts) \cup {HugeParts}]
    /\ InitState({"linux"}, OneBatches, {[p \in Paths |-> "absent"]})

NextPlan ==
    \/ Probe
    \/ CheckErr
    \/ \E j \in Jobs : StatOutput(j)
    \/ \E j \in Jobs : CreateOutput(j)

SpecPlan == InitPlan /\ [][NextPlan]_vars

\* Two URLs whose servers send a Content-Length header that is present,
\* absent or unparsable.
NoLength(name) == [name |-> name, length |-> 5, header |-> << >>]
BadLength(name) == [name |-> name, length |-> 5, header |-> << 1, NonDigit >>]

ProbeBatches ==
    { << Url("a", 5), NoLength("b") >>,
      << Url("a", 5), BadLength("b") >>,
      << NoLength("a"), Url("b", 5) >>,
      << BadLength("a"), Url("b", 5) >> }

InitProbe == InitWith({"linux"}, ProbeBatches, {[p \in Paths |-> "absent"]})

SpecProbe == InitProbe /\ [][Next]_vars

\* Two successive calls of Download on one Downloader: once the first call
\* has returned and its workers have finished, the second starts with a new
\* WaitGroup and channel (line 80-81); d.err and d.downloadPaths are kept.
FirstCall == << Url("a", 5) >>
SecondCall == << Url("b", 5) >>

DownloadAgain ==
    /\ fileUrls = FirstCall
    /\ mpc = "returned"
    /\ \A j \in Jobs : jpc[j] \in {"idle", "done"}
    /\ \A j \in Jobs, i \in Parts : fetch[j][i].pc \in {"idle", "done"}
    /\ fileUrls' = SecondCall
    /\ mpc' = "probe"
    /\ k' = 1
    /\ ret' = [paths |-> << >>, err |-> "none"]
    /\ wg' = 0
    /\ waitChan' = 0
    /\ jpc' = [j \in DOMAIN SecondCall |-> "idle"]
    /\ job' = [j \in DOMAIN SecondCall |-> NoJob]
    /\ fetch' = [j \in DOMAIN SecondCall |-> [i \in Parts |-> NoFetch]]
    /\ chunk' = [j \in DOMAIN SecondCall |-> [i \in Parts |-> NoChunk]]
    /\ UNCHANGED <<goos, opts, fs, derr, downloadPaths>>

InitReuse == InitWith({"linux"}, {FirstCall}, {[p \in Paths |-> "absent"]})

NextReuse == Next \/ DownloadAgain

SpecReuse == InitReuse /\ [][NextReuse]_vars

\* ----------------------------------------------------------------- claims
Range(seq) == { seq[x] : x \in 1 .. Len(seq) }

Fetchers == Jobs \X Parts

\* range-fetch workers launched and not yet finished (wg.Done() not yet called)
Unfinished == { f \in Fetchers : fetch[f[1]][f[2]].pc \in {"do", "release", "wgdone"} }

\* range-fetch workers that still hold the permit acquired for them
Holding == { f \in Fetchers : fetch[f[1]][f[2]].pc \in {"do", "release"} }

FetchFailed(j, i) == fetch[j][i].res \in {"transport", "status", "copy"}

JobFailed(j) == job[j].res \in {"exists", "create", "tmp", "combine"}

\* every range fetch planned for j was launched, has finished and succeeded
AllFetchesOk(j) ==
    /\ jpc[j] \notin {"idle", "stat", "create"}
    /\ job[j].i = numConcParts(job[j].size)
    /\ \A i \in 0 .. (job[j].i - 1) :
          fetch[j][i].pc = "done" /\ fetch[j][i].res = "ok"

Recorded(j) == job[j].res = "recorded"

\* C1 as stated: at most MaxLimitConcurrency range-fetch workers are launched
\* and unfinished, and at most MaxLimitConcurrency permits are outstanding.
C1_UnfinishedWithinLimit ==
    /\ Cardinality(Unfinished) <= opts.MaxLimitConcurrency
    /\ waitChan <= opts.MaxLimitConcurrency

\* C1 amended: the range-fetch workers that still hold their permit (request
\* or copy under way, release not yet run) are at most as many as the
\* outstanding permits, and those never exceed MaxLimitConcurrency.
C1_HoldersWithinLimit ==
    /\ Cardinality(Holding) <= waitChan
    /\ waitChan <= opts.MaxLimitConcurrency

\* C1 witness: the limiter is full with every permit held by a running
\* worker, and a per-URL worker is blocked on the channel send.
C1_Witness ==
    /\ waitChan = opts.MaxLimitConcurrency
    /\ Cardinality(Holding) = opts.MaxLimitConcurrency
    /\ \E j \in Jobs : jpc[j] = "acquire"

\* C2: if any job or any range fetch of the batch failed, Download returns a
\* non-nil error.
C2_FailureReturnsError ==
    (/\ mpc = "returned"
     /\ \/ \E j \in Jobs : JobFailed(j)
        \/ \E f \in Fetchers : FetchFailed(f[1], f[2]))
    => ret.err # "nil"

\* C3: once Download has returned, no per-URL worker and no range-fetch worker
\* of the batch is still running.
C3_ReturnAfterAllWorkers ==
    mpc = "returned" =>
        /\ \A j \in Jobs : jpc[j] \in {"idle", "done"}
        /\ \A f \in Fetchers : fetch[f[1]][f[2]].pc \in {"idle", "done"}

DistinctPaths ==
    \A j1, j2 \in Jobs : j1 # j2 => outputFilePath(j1) # outputFilePath(j2)

\* C4: when every probe, range fetch and combination of the batch succeeded,
\* the returned list holds the output path of every URL exactly once (stated
\* for batches whose URLs have pairwise distinct output paths).
C4_AllPathsReturned ==
    (/\ mpc = "returned"
     /\ DistinctPaths
     /\ \A j \in Jobs : Recorded(j) /\ AllFetchesOk(j))
    => /\ Len(ret.paths) = Len(fileUrls)
       /\ \A j \in Jobs : outputFilePath(j) \in Range(ret.paths)

\* C5: a job that added its path to the result collection had every one of its
\* range fetches succeed.
C5_RecordedOnlyIfFetchesOk ==
    \A j \in Jobs : Recorded(j) => AllFetchesOk(j)

\* C6: a job that finds its output path existing stores the destination-exists
\* error and returns in that step, having created no chunk file, acquired no
\* permit, launched no fetch and added no path, and it changes nothing later;
\* a file the directory held before the batch is never overwritten.
C6_ExistingDestination ==
    [][ /\ \A j \in Jobs :
             (jpc[j] = "stat" /\ fs[outputFilePath(j)] # "absent" /\ jpc'[j] # "stat")
             => /\ jpc'[j] = "done"
                /\ job'[j].res = "exists"
                /\ derr' = "exists"
                /\ <<fs, chunk, fetch, waitChan, downloadPaths>>' =
                   <<fs, chunk, fetch, waitChan, downloadPaths>>
        /\ \A j \in Jobs :
             job[j].res = "exists"
             => /\ job[j].i = 0 /\ job[j].out = << >>
                /\ \A i \in Parts : chunk[j][i].st = "none" /\ fetch[j][i].pc = "idle"
                /\ <<jpc[j], job[j], chunk[j], fetch[j]>>' =
                   <<jpc[j], job[j], chunk[j], fetch[j]>>
        /\ \A p \in Paths : fs[p] = "old" => fs'[p] = "old"
      ]_vars

\* C6 witness: a job has failed on a file the directory held before the batch.
C6_Witness ==
    \E j \in Jobs : job[j].res = "exists" /\ fs[outputFilePath(j)] = "old"

\* has passed the existence check and created (truncated) the output file
Created(j) ==
    jpc[j] \notin {"idle", "stat", "create"} /\ job[j].res \notin {"exists", "create"}

\* C7: an output path is created by at most one job of the batch.
C7_OneCreatorPerPath ==
    \A j1, j2 \in Jobs :
        (j1 # j2 /\ outputFilePath(j1) = outputFilePath(j2))
        => ~ (Created(j1) /\ Created(j2))

\* C8: two jobs with distinct paths, a range GET of one answered with a status
\* other than 200/206, the other's probe and all range fetches succeeding: the
\* other job's path is in the list Download returns.
C8_IndependentJobCompletes ==
    \A j1, j2 \in Jobs :
        (/\ mpc = "returned"
         /\ j1 # j2
         /\ outputFilePath(j1) # outputFilePath(j2)
         /\ \E i \in Parts : fetch[j1][i].res = "status"
         /\ jpc[j2] = "done" /\ ~ JobFailed(j2)
         /\ AllFetchesOk(j2))
        => outputFilePath(j2) \in Range(ret.paths)

\* C9: a job whose probe reported the source's length and whose range fetches
\* all succeeded writes exactly the source: the chunks in index order make up
\* the bytes 0 .. L-1, L bytes in all.
C9_RoundTrip ==
    \A j \in Jobs :
        (/\ jpc[j] \in {"append", "store"} \/ Recorded(j)
         /\ job[j].size = fileUrls[j].length
         /\ AllFetchesOk(j))
        => /\ job[j].out = Source(fileUrls[j].length)
           /\ ByteLen(job[j].out) = fileUrls[j].length

\* C9 witness: a file above the threshold, fetched in at least two parts, has
\* been combined into exactly its source.
C9_Witness ==
    \E j \in Jobs :
        /\ Recorded(j) /\ AllFetchesOk(j)
        /\ fileUrls[j].length > SplitThreshold
        /\ job[j].i >= 2
        /\ job[j].out = Source(fileUrls[j].length)

\* C10: when Download returns a non-nil error, the list it returns holds the
\* path of every job that had completed successfully (all its range fetches
\* succeeded and its path was recorded) by then.
C10_ErrorReturnKeepsPaths ==
    [][ (mpc # "returned" /\ mpc' = "returned" /\ ret'.err # "nil")
        => \A j \in Jobs : (Recorded(j) /\ AllFetchesOk(j))
                             => outputFilePath(j) \in Range(ret'.paths)
      ]_vars

FetchFinished(j, i) == fetch[j][i].pc \in {"idle", "done"}

\* C11: whenever every range-fetch worker launched so far has finished, no
\* permit is outstanding.
C11_PermitsReleased ==
    (\A f \in Fetchers : FetchFinished(f[1], f[2])) => waitChan = 0

\* Download has returned and every worker it launched has finished
Terminated ==
    /\ mpc = "returned"
    /\ \A j \in Jobs : jpc[j] \in {"idle", "done"}
    /\ \A f \in Fetchers : FetchFinished(f[1], f[2])

\* C12: with MaxLimitConcurrency >= 1 and every request returning, no worker
\* blocks forever: in every state short of termination some worker or
\* Download itself can take a step.
C12_NoWorkerBlocksForever ==
    Terminated \/ ENABLED Next

\* C15: while a job combines its chunks, every range-fetch worker it launched
\* has finished.
C15_CombineAfterFetchers ==
    \A j \in Jobs :
        jpc[j] = "combine" => \A i \in Parts : FetchFinished(j, i)

\* C15 witness: a job that launched at least two range-fetch workers is
\* combining.
C15_Witness ==
    \E j \in Jobs : jpc[j] = "combine" /\ job[j].i >= 2

\* C18: once the batch error is set, no job adds its path to the result
\* collection.
C18_NoPathAfterError ==
    [][ derr # "nil" => downloadPaths' = downloadPaths ]_vars

\* C19: when a per-URL worker has finished (its deferred close and remove of
\* the chunk files have run), every range-fetch worker it launched has finished.
C19_FetchersDoneBeforeCleanup ==
    \A j \in Jobs :
        jpc[j] = "done" => \A i \in Parts : FetchFinished(j, i)

\* C13 as stated: for every content length above the split threshold and every
\* part count P >= 1 the planned ranges partition [0, L): P ranges, range 0
\* starts at 0, each start is one more than the previous end, starts and ends
\* strictly increase with the index, and the last end is L - 1.
Planned(j) == jpc[j] # "idle" /\ job[j].size > SplitThreshold

Partition(L) ==
    /\ numConcParts(L) = opts.NumConcParts
    /\ rangeMin(L, 0) = 0
    /\ rangeMax(L, numConcParts(L) - 1) = L - 1
    /\ \A i \in 1 .. (numConcParts(L) - 1) :
          /\ rangeMin(L, i) > rangeMin(L, i - 1)
          /\ rangeMax(L, i) > rangeMax(L, i - 1)
          /\ rangeMin(L, i) = rangeMax(L, i - 1) + 1

C13_PlannerPartitions ==
    \A j \in Jobs : Planned(j) => Partition(job[j].size)

\* The partition property does hold for the part counts that do not exceed
\* the content length.
PlannerPartitionsUpToLength ==
    \A j \in Jobs :
        (Planned(j) /\ opts.NumConcParts <= job[j].size) => Partition(job[j].size)

\* C14: for every content length at or below the split threshold (the
\* threshold included) and every part count, the plan is the one range
\* [0, L - 1] and exactly one range fetch is launched for the job; for L = 0
\* the range is empty.
PastLaunchLoop(j) == jpc[j] \in {"check", "wait", "combine", "append", "store"}

C14_SingleRangeAtOrBelowThreshold ==
    \A j \in Jobs :
        (jpc[j] # "idle" /\ job[j].size <= SplitThreshold) =>
            /\ \A i \in Parts \ {0} : fetch[j][i].pc = "idle"
            /\ job[j].i <= 1
            /\ fetch[j][0].pc # "idle" =>
                  /\ fetch[j][0].min = 0
                  /\ fetch[j][0].max = job[j].size - 1
                  /\ ByteLen(Bytes(fetch[j][0].min, fetch[j][0].max)) = job[j].size
            /\ PastLaunchLoop(j) => job[j].i = 1 /\ fetch[j][0].pc # "idle"

C14_Witness ==
    \E j \in Jobs : /\ job[j].size = SplitThreshold
                    /\ opts.NumConcParts >= 2
                    /\ PastLaunchLoop(j)
                    /\ fetch[j][0].pc = "done"

\* C16: when the probe of the k-th URL fails (transport error, status other
\* than 200, unparsable Content-Length), Download returns a non-nil error and
\* no per-URL worker is launched for the k-th or a later URL; a missing
\* Content-Length is no failure and gives length 0.
Digits(t) == \A x \in 1 .. Len(t) : t[x] \in 0 .. 9

C16_ProbeFailureStopsBatch ==
    [][ /\ (mpc = "probe" /\ mpc' = "returned") =>
              /\ ret'.err = "probe"
              /\ jpc' = jpc
              /\ \A j \in Jobs : j >= k => jpc[j] = "idle"
        /\ (mpc = "probe" /\ mpc' \notin {"probe", "returned"}) =>
              /\ mpc' = "check"
              /\ jpc[k] = "idle"
              /\ jpc'[k] = "stat"
              /\ Digits(fileUrls[k].header)
              /\ fileUrls[k].header = << >> => job'[k].size = 0
        /\ ret.err = "probe" => \A j \in Jobs : j >= k => jpc'[j] = "idle"
      ]_vars

C16_Witness ==
    /\ mpc = "returned"
    /\ ret.err = "probe"
    /\ k = 2
    /\ fileUrls[2].header = << 1, NonDigit >>
    /\ jpc[1] # "idle"
    /\ jpc[2] = "idle"

\* C17: on every exit path of a per-URL worker, every temporary chunk file it
\* created is closed and removed by the time it finishes, and it removes only
\* files it created itself.
C17_ChunksClosedAndRemoved ==
    [][ \A j \in Jobs :
           (jpc[j] # "done" /\ jpc'[j] = "done") =>
               /\ \A i \in Parts : chunk'[j][i].st \in {"none", "removed"}
               /\ \A j2 \in Jobs \ {j} : chunk'[j2] = chunk[j2]
      ]_vars

\* C20: successive Download calls on one Downloader are independent: a later
\* call returns only output paths of its own jobs, and an error recorded
\* during an earlier call does not make a job of the later call, whose probe
\* and fetches all succeed, stop without combining.
C20_CallsIndependent ==
    fileUrls = SecondCall =>
        /\ mpc = "returned" =>
              Range(ret.paths) \subseteq { outputFilePath(j) : j \in Jobs }
        /\ \A j \in Jobs : AllFetchesOk(j) => job[j].res # "aborted"

====
